---- MODULE Spec2Model ----
(***************************************************************************)
(* Model of the temperature-analysis repository: the rolling and seasonal  *)
(* anomaly detectors (utils.py), the batch benchmark harness               *)
(* (benchmark_historical and the Experiments page), and the live-weather   *)
(* fan-out (fetch_many_cities_async, _async_many, the sequential loop).    *)
(*                                                                         *)
(* Temperatures are integers; a mean is kept as the exact fraction num/den *)
(* and a standard deviation as the exact fraction of its square, so every  *)
(* comparison against mean +/- 2*std is exact.  NaN/NaT is def = FALSE.    *)
(* City names are the integers 1..3 in their alphabetical order.   *)
(***************************************************************************)
EXTENDS Integers, Sequences, FiniteSets, TLC

\* ---------------------------------------------------------------- bounds
MaxLen == 7
MaxCities == 3
MaxWorkers == 2

Temps == {0, 1}
SeasonOrder == <<"autumn", "spring", "summer", "winter">>

VARIABLES
    \* detector pipeline (analyze_city / analyze_city_block on one CitySeries)
    series, cdf, window, season_stats, counts, block, dpc,
    \* batch benchmark harness (benchmark_historical / the Experiments page)
    harness, df, cities, workers, faulty, tasks, seq_results, fut, par_results,
    results_df, error, pc,
    \* live-weather fan-out of the Experiments page (sequential loop, _async_many)
    sel, sync_resp, sync_rows, async_results, async_df, fpc,
    \* fetch_many_cities_async
    fm_cities, responses, results, fm_pc

dvars == <<series, cdf, season_stats, counts, block, dpc>>
bvars == <<harness, df, cities, workers, faulty, tasks, seq_results, fut, par_results,
           results_df, error, pc>>
fvars == <<sel, sync_resp, sync_rows, async_results, async_df, fpc>>
mvars == <<fm_cities, responses, results, fm_pc>>
vars == <<window, dvars, bvars, fvars, mvars>>

\* ------------------------------------------------------- numeric helpers
NaN == [def |-> FALSE, num |-> 0, den |-> 1]

RECURSIVE SumSeq(_)
SumSeq(s) == IF s = <<>> THEN 0 ELSE Head(s) + SumSeq(Tail(s))

RECURSIVE SumSqDev(_, _, _)
\* sum over x in s of (n*x - total)^2, i.e. n^2 * sum (x - mean)^2
SumSqDev(s, n, total) ==
    IF s = <<>> THEN 0
    ELSE (n * Head(s) - total) * (n * Head(s) - total) + SumSqDev(Tail(s), n, total)

Column(d, name) == [i \in 1..Len(d) |-> d[i][name]]

\* Series.mean(): undefined on no observations
MeanOf(xs) ==
    IF Len(xs) = 0 THEN NaN
    ELSE [def |-> TRUE, num |-> SumSeq(xs), den |-> Len(xs)]

StdPopulation(xs) ==
    IF Len(xs) = 0 THEN NaN
    ELSE [def |-> TRUE, num |-> SumSqDev(xs, Len(xs), SumSeq(xs)),
          den |-> Len(xs) * Len(xs) * Len(xs)]

\* Series.std(): sample standard deviation (ddof = 1), kept as its square;
\* undefined on fewer than two observations
StdOf(xs) ==
    IF Len(xs) < 2 THEN NaN
    ELSE [def |-> TRUE, num |-> SumSqDev(xs, Len(xs), SumSeq(xs)),
          den |-> Len(xs) * Len(xs) * (Len(xs) - 1)]

\* mean + k*std for k = 2 or k = -2; NaN when either operand is NaN
Bound(mean, std, k) == [def |-> mean.def /\ std.def, m |-> mean, s |-> std, k |-> k]

\* t > b, false when b is NaN:  t - m > k*sqrt(v)
GreaterThan(t, b) ==
    /\ b.def
    /\ LET a == t * b.m.den - b.m.num          \* (t - m) * den
           lhs == a * a * b.s.den              \* (t - m)^2 scaled
           rhs == b.k * b.k * b.s.num * b.m.den * b.m.den
       IN IF b.k >= 0 THEN a > 0 /\ lhs > rhs
          ELSE a > 0 \/ lhs < rhs

\* t < b, false when b is NaN
LessThan(t, b) ==
    /\ b.def
    /\ LET a == b.m.num - t * b.m.den          \* (m - t) * den
           lhs == a * a * b.s.den
           rhs == b.k * b.k * b.s.num * b.m.den * b.m.den
       IN IF b.k <= 0 THEN a > 0 /\ lhs > rhs
          ELSE a > 0 \/ lhs < rhs

Count(d, name) == Cardinality({i \in 1..Len(d) : d[i][name]})

\* ------------------------------------------------------------ detectors
NaT == [def |-> FALSE, day |-> 0]
None == [city |-> 0]

RECURSIVE InsertByKey(_, _, _)
InsertByKey(sorted, r, key) ==
    IF sorted = <<>> THEN <<r>>
    ELSE IF r[key] < Head(sorted)[key] THEN <<r>> \o sorted
    ELSE <<Head(sorted)>> \o InsertByKey(Tail(sorted), r, key)

RECURSIVE SortValues(_, _)
\* DataFrame.sort_values(key): ascending, equal keys keep their order
SortValues(d, key) ==
    IF d = <<>> THEN <<>>
    ELSE InsertByKey(SortValues(SubSeq(d, 1, Len(d) - 1), key), d[Len(d)], key)

RECURSIVE FilterCity(_, _)
FilterCity(table, city) ==
    IF table = <<>> THEN <<>>
    ELSE IF Head(table).city = city THEN <<Head(table)>> \o FilterCity(Tail(table), city)
    ELSE FilterCity(Tail(table), city)

city_slice(table, city) == SortValues(FilterCity(table, city), "timestamp")

MinPeriodsOne(w) == 1

\* rolling(window=window, min_periods=window)
MinPeriods(w) == w

\* the trailing window ending at row i
RollingWindow(xs, i, w) == SubSeq(xs, IF i - w + 1 > 1 THEN i - w + 1 ELSE 1, i)

RollingMean(xs, i, w) ==
    IF Len(RollingWindow(xs, i, w)) < MinPeriods(w) THEN NaN
    ELSE MeanOf(RollingWindow(xs, i, w))

RollingStd(xs, i, w) ==
    IF Len(RollingWindow(xs, i, w)) < MinPeriods(w) THEN NaN
    ELSE StdOf(RollingWindow(xs, i, w))

add_rolling(df_city, w) ==
    LET xs == Column(df_city, "temperature") IN
    [i \in 1..Len(df_city) |->
        LET mean == RollingMean(xs, i, w)
            std == RollingStd(xs, i, w)
            upper == Bound(mean, std, 2)
            lower == Bound(mean, std, -2)
        IN df_city[i] @@
           [roll_mean |-> mean, roll_std |-> std,
            roll_upper |-> upper, roll_lower |-> lower,
            roll_anomaly |-> mean.def /\ (GreaterThan(xs[i], upper) \/ LessThan(xs[i], lower))]]

RECURSIVE TempsOfSeason(_, _)
TempsOfSeason(d, season) ==
    IF d = <<>> THEN <<>>
    ELSE IF Head(d).season = season
         THEN <<Head(d).temperature>> \o TempsOfSeason(Tail(d), season)
    ELSE TempsOfSeason(Tail(d), season)

SeasonStdPopulation(xs) == StdPopulation(xs)

\* the "std" aggregate of groupby("season")["temperature"].agg
SeasonStd(xs) == StdOf(xs)

RECURSIVE GroupBySeason(_, _)
\* one row per season present in d, in key order
GroupBySeason(d, order) ==
    IF order = <<>> THEN <<>>
    ELSE LET xs == TempsOfSeason(d, Head(order)) IN
         (IF xs = <<>> THEN <<>>
          ELSE <<[season |-> Head(order), season_mean |-> MeanOf(xs),
                  season_std |-> SeasonStd(xs)]>>)
         \o GroupBySeason(d, Tail(order))

season_stats_for_city(df_city) == GroupBySeason(df_city, SeasonOrder)

RECURSIVE MatchRows(_, _, _)
MatchRows(r, stats, matched) ==
    IF stats = <<>>
    THEN (IF matched THEN <<>>
          ELSE <<r @@ [season_mean |-> NaN, season_std |-> NaN]>>)
    ELSE IF Head(stats).season = r.season
         THEN <<r @@ Head(stats)>> \o MatchRows(r, Tail(stats), TRUE)
    ELSE MatchRows(r, Tail(stats), matched)

RECURSIVE MergeLeft(_, _)
\* left join on season: every left row once per matching right row,
\* or once with undefined statistics when no right row matches
MergeLeft(d, stats) ==
    IF d = <<>> THEN <<>>
    ELSE MatchRows(Head(d), stats, FALSE) \o MergeLeft(Tail(d), stats)

add_season_bounds(df_city, stats) ==
    LET d == MergeLeft(df_city, stats) IN
    [i \in 1..Len(d) |->
        LET upper == Bound(d[i].season_mean, d[i].season_std, 2)
            lower == Bound(d[i].season_mean, d[i].season_std, -2)
        IN d[i] @@
           [season_upper |-> upper, season_lower |-> lower,
            season_anomaly |-> GreaterThan(d[i].temperature, upper)
                               \/ LessThan(d[i].temperature, lower)]]

analyze_city(city_name, df_all, w) ==
    LET rolled == add_rolling(city_slice(df_all, city_name), w)
        bounded == add_season_bounds(rolled, season_stats_for_city(rolled))
    IN [city |-> city_name,
        rolling_anomalies |-> Count(bounded, "roll_anomaly"),
        season_anomalies |-> Count(bounded, "season_anomaly")]

RECURSIVE MinOf(_)
MinOf(xs) == IF Len(xs) = 1 THEN xs[1]
             ELSE LET m == MinOf(Tail(xs)) IN IF xs[1] < m THEN xs[1] ELSE m

RECURSIVE MaxOf(_)
MaxOf(xs) == IF Len(xs) = 1 THEN xs[1]
             ELSE LET m == MaxOf(Tail(xs)) IN IF xs[1] > m THEN xs[1] ELSE m

PeriodStartEpoch(d) == IF d = <<>> THEN [def |-> TRUE, day |-> 0]
                       ELSE [def |-> TRUE, day |-> MinOf(Column(d, "timestamp"))]

\* Series.min().date() / Series.max().date(): NaT on an empty column
PeriodStart(d) == IF d = <<>> THEN NaT
                  ELSE [def |-> TRUE, day |-> MinOf(Column(d, "timestamp"))]
PeriodEnd(d) == IF d = <<>> THEN NaT
                ELSE [def |-> TRUE, day |-> MaxOf(Column(d, "timestamp"))]

analyze_city_block(city, df_city, w) ==
    LET d == SortValues(df_city, "timestamp")
        xs == Column(d, "temperature")
        roll_anoms == Cardinality({i \in 1..Len(d) :
            LET mean == RollingMean(xs, i, w)
                std == RollingStd(xs, i, w)
            IN mean.def /\ (GreaterThan(xs[i], Bound(mean, std, 2))
                            \/ LessThan(xs[i], Bound(mean, std, -2)))})
        joined == MergeLeft(d, GroupBySeason(d, SeasonOrder))
        season_anoms == Cardinality({i \in 1..Len(joined) :
            \/ GreaterThan(joined[i].temperature,
                           Bound(joined[i].season_mean, joined[i].season_std, 2))
            \/ LessThan(joined[i].temperature,
                        Bound(joined[i].season_mean, joined[i].season_std, -2))})
    IN [city |-> city,
        n_days |-> Len(joined),
        period_start |-> PeriodStart(joined),
        period_end |-> PeriodEnd(joined),
        rolling_anomalies |-> roll_anoms,
        season_anomalies |-> season_anoms]

\* ------------------------------------------------ batch benchmark harness
Cities == {1, 2, 3}

Row(c, ts, t, season) == [city |-> c, timestamp |-> ts, temperature |-> t, season |-> season]

\* city 1: seven winter days with one outlier, stored out of order;
\* city 2: two days; city 3: no rows
TableA == <<Row(1, 7, 1, "winter"), Row(2, 2, 7, "summer"), Row(1, 1, 0, "winter"),
            Row(1, 2, 0, "winter"), Row(1, 3, 0, "winter"), Row(2, 1, 5, "summer"),
            Row(1, 4, 0, "winter"), Row(1, 5, 0, "winter"), Row(1, 6, 0, "winter")>>

\* city 3: eight days with a low outlier at the end; city 1: one day; city 2: no rows
TableB == <<Row(3, 1, 4, "summer"), Row(3, 2, 4, "summer"), Row(1, 1, 9, "winter"),
            Row(3, 3, 4, "summer"), Row(3, 4, 4, "summer"), Row(3, 5, 4, "summer"),
            Row(3, 6, 4, "summer"), Row(3, 7, 4, "summer"), Row(3, 8, 2, "summer")>>

Inputs == {[df |-> TableA, window |-> 7], [df |-> TableB, window |-> 8]}

Range(s) == {s[i] : i \in 1..Len(s)}

RECURSIVE DictKeys(_)
\* the keys of {c: ... for c in cities}: each city once, in order of first occurrence
DictKeys(cs) ==
    IF cs = <<>> THEN <<>>
    ELSE LET init == DictKeys(SubSeq(cs, 1, Len(cs) - 1)) IN
         IF cs[Len(cs)] \in Range(init) THEN init ELSE Append(init, cs[Len(cs)])

RECURSIVE SortedSet(_)
SortedSet(S) ==
    IF S = {} THEN <<>>
    ELSE LET m == CHOOSE x \in S : \A y \in S : x <= y IN <<m>> \o SortedSet(S \ {m})

\* sorted(df["city"].unique())
PageCities(table) == SortedSet({table[i].city : i \in 1..Len(table)})

\* df[df["city"] == c][["city", "timestamp", "temperature", "season"]].copy()
CityGroup(table, c) == FilterCity(table, c)

SequentialTask(h, table, c, w) ==
    IF h = "benchmark_historical" THEN analyze_city_block(c, CityGroup(table, c), w)
    ELSE analyze_city(c, table, w)

ParallelTaskDefaultWindow(h, table, c, w) ==
    IF h = "benchmark_historical" THEN analyze_city_block(c, CityGroup(table, c), 30)
    ELSE analyze_city(c, table, 30)

\* ex.submit(analyze_city_block, c, dcity, window) / ex.map(lambda c: analyze_city(c, df, window))
ParallelTask(h, table, c, w) ==
    IF h = "benchmark_historical" THEN analyze_city_block(c, CityGroup(table, c), w)
    ELSE analyze_city(c, table, w)

Unsorted(rows) == rows

\* pd.DataFrame(par_results).sort_values("city").reset_index(drop=True)
SortByCity(rows) == SortValues(rows, "city")

NoFutures == <<>>

\* the task executions that raise: <<"seq", c>> is the analysis of city c in the
\* sequential loop, <<"par", c>> its analysis in the pool
FaultyCities == {f[2] : f \in faulty}

BIdle ==
    /\ harness = "none"
    /\ df = <<>>
    /\ cities = <<>>
    /\ workers = 1
    /\ faulty = {}
    /\ tasks = <<>>
    /\ seq_results = <<>>
    /\ fut = NoFutures
    /\ par_results = <<>>
    /\ results_df = <<>>
    /\ error = "none"
    /\ pc = "idle"

DIdle ==
    /\ series = <<>>
    /\ cdf = <<>>
    /\ season_stats = <<>>
    /\ counts = None
    /\ block = None
    /\ dpc = "idle"

CityLists == UNION {[1..n -> Cities] : n \in 0..MaxCities}

\* ------------------------------------------------------ live-weather fan-out
\* what one request for a city can come back with: a payload, or an exception
\* (timeout, connection error, undecodable body)
\* the service answers a success with the integer cod 200 and a failure with a
\* string cod such as "404"
OkPayload(c) == [exc |-> FALSE, cod |-> 200, cod_is_str |-> FALSE, has_main |-> TRUE,
                 temp |-> 20 + c]
ApiError == [exc |-> FALSE, cod |-> 404, cod_is_str |-> TRUE, has_main |-> FALSE, temp |-> 0]
Malformed == [exc |-> FALSE, cod |-> 200, cod_is_str |-> TRUE, has_main |-> FALSE, temp |-> 0]
TransportError == [exc |-> TRUE, cod |-> 0, cod_is_str |-> FALSE, has_main |-> FALSE,
                   temp |-> 0]
Pending == [exc |-> FALSE, cod |-> 0, cod_is_str |-> FALSE, has_main |-> FALSE, temp |-> 0]

Outcomes(c) == {OkPayload(c), ApiError, Malformed, TransportError}

NoTemp == [def |-> FALSE, value |-> 0]

\* str(x): the decimal digits of an integer, the string itself otherwise; a cod
\* is kept as its number, so both 200 and "200" convert to the digits of 200
Str(cod, is_str) == cod

ExtractTempNoStr(data) ==
    IF ~data.cod_is_str \/ data.cod # 200 THEN [raised |-> TRUE, value |-> 0]
    ELSE IF ~data.has_main THEN [raised |-> TRUE, value |-> 0]
    ELSE [raised |-> FALSE, value |-> data.temp]

\* ValueError on str(cod) != "200", KeyError on a payload without main.temp
_extract_temp_from_owm_response(data) ==
    IF Str(data.cod, data.cod_is_str) # 200 THEN [raised |-> TRUE, value |-> 0]
    ELSE IF ~data.has_main THEN [raised |-> TRUE, value |-> 0]
    ELSE [raised |-> FALSE, value |-> data.temp]

\* the body of the sequential loop: try fetch and extract, except Exception -> None
SyncRow(c, r) ==
    IF r.exc THEN [city |-> c, temp |-> NoTemp]
    ELSE IF _extract_temp_from_owm_response(r).raised THEN [city |-> c, temp |-> NoTemp]
    ELSE [city |-> c,
          temp |-> [def |-> TRUE, value |-> _extract_temp_from_owm_response(r).value]]

\* the body of the loop over zip(cities_list, results) in _async_many
AsyncRow(c, r) ==
    IF r.exc THEN [city |-> c, temp |-> NoTemp]
    ELSE IF _extract_temp_from_owm_response(r).raised THEN [city |-> c, temp |-> NoTemp]
    ELSE [city |-> c,
          temp |-> [def |-> TRUE, value |-> _extract_temp_from_owm_response(r).value]]

FIdle ==
    /\ sel = <<>>
    /\ sync_resp = <<>>
    /\ sync_rows = <<>>
    /\ async_results = <<>>
    /\ async_df = <<>>
    /\ fpc = "idle"

MIdle ==
    /\ fm_cities = <<>>
    /\ responses = <<>>
    /\ results = <<>>
    /\ fm_pc = "idle"

\* the multiselect: a non-empty selection of distinct cities, in any order
Selections ==
    {s \in UNION {[1..n -> Cities] : n \in 1..Cardinality(Cities)} :
        \A i \in 1..Len(s) : \A j \in 1..Len(s) : i # j => s[i] # s[j]}

FInit ==
    /\ sel \in Selections
    /\ sync_resp = <<>>
    /\ sync_rows = <<>>
    /\ async_results = <<>>
    /\ async_df = <<>>
    /\ fpc = "sync"
    /\ window = 30
    /\ DIdle
    /\ BIdle
    /\ MIdle

\* one iteration of the sequential loop: the blocking call and its row
FetchSync ==
    /\ fpc = "sync"
    /\ Len(sync_rows) < Len(sel)
    /\ \E r \in Outcomes(sel[Len(sync_rows) + 1]) :
        /\ sync_resp' = Append(sync_resp, r)
        /\ sync_rows' = Append(sync_rows, SyncRow(sel[Len(sync_rows) + 1], r))
    /\ UNCHANGED <<sel, async_results, async_df, fpc>>
    /\ UNCHANGED <<window, dvars, bvars, mvars>>

\* asyncio.run(_async_many(sel, api_key)): one task per city, all started by gather
LaunchAsync ==
    /\ fpc = "sync"
    /\ Len(sync_rows) = Len(sel)
    /\ async_results' = [i \in 1..Len(sel) |-> Pending]
    /\ fpc' = "gather"
    /\ UNCHANGED <<sel, sync_resp, sync_rows, async_df>>
    /\ UNCHANGED <<window, dvars, bvars, mvars>>

Outstanding == {i \in 1..Len(async_results) : async_results[i] = Pending}

\* a task ends, in any order; gather(return_exceptions=True) keeps its payload or
\* its exception at the task's position
TaskCompletes ==
    /\ fpc = "gather"
    /\ \E i \in Outstanding : \E r \in Outcomes(sel[i]) :
        async_results' = [async_results EXCEPT ![i] = r]
    /\ UNCHANGED <<sel, sync_resp, sync_rows, async_df, fpc>>
    /\ UNCHANGED <<window, dvars, bvars, mvars>>

\* gather returns: the rows are built from zip(cities_list, results)
BuildRows ==
    /\ fpc = "gather"
    /\ Outstanding = {}
    /\ async_df' = [i \in 1..Len(sel) |-> AsyncRow(sel[i], async_results[i])]
    /\ fpc' = "done"
    /\ UNCHANGED <<sel, sync_resp, sync_rows, async_results>>
    /\ UNCHANGED <<window, dvars, bvars, mvars>>

FNext == FetchSync \/ LaunchAsync \/ TaskCompletes \/ BuildRows

SpecFanout == FInit /\ [][FNext]_vars

\* ----------------------------------------------- fetch_many_cities_async
\* what session.get can come back with: an exception, a response whose body
\* reads as JSON, or a response whose body read fails
BodyOk(c) == [kind |-> "response", body_ok |-> TRUE, cod |-> 200, city |-> c]
BodyFails(c) == [kind |-> "response", body_ok |-> FALSE, cod |-> 0, city |-> c]
RequestFails(c) == [kind |-> "exception", body_ok |-> FALSE, cod |-> 0, city |-> c]
NotYet == [kind |-> "pending", body_ok |-> FALSE, cod |-> 0, city |-> 0]

RequestOutcomes(c) == {BodyOk(c), BodyFails(c), RequestFails(c)}

ErrorRecord == [cod |-> "error", city |-> 0]

MInit ==
    /\ fm_cities \in CityLists
    /\ responses = <<>>
    /\ results = <<>>
    /\ fm_pc = "start"
    /\ window = 30
    /\ DIdle
    /\ BIdle
    /\ FIdle

\* the session is opened, one request per city is created and gather starts them all
GatherRequests ==
    /\ fm_pc = "start"
    /\ responses' = [i \in 1..Len(fm_cities) |-> NotYet]
    /\ fm_pc' = "gather"
    /\ UNCHANGED <<fm_cities, results>>
    /\ UNCHANGED <<window, dvars, bvars, fvars>>

\* a request ends, in any order, with a response or with an exception
RequestCompletes ==
    /\ fm_pc = "gather"
    /\ \E i \in {j \in 1..Len(responses) : responses[j] = NotYet} :
        \E r \in RequestOutcomes(fm_cities[i]) :
            responses' = [responses EXCEPT ![i] = r]
    /\ UNCHANGED <<fm_cities, results, fm_pc>>
    /\ UNCHANGED <<window, dvars, bvars, fvars>>

\* gather returns once every request has ended
GatherReturns ==
    /\ fm_pc = "gather"
    /\ \A i \in 1..Len(responses) : responses[i] # NotYet
    /\ fm_pc' = "read"
    /\ UNCHANGED <<fm_cities, responses, results>>
    /\ UNCHANGED <<window, dvars, bvars, fvars>>

\* one iteration of the loop over responses: an exception becomes an error
\* record; otherwise the body is read, and a failing read leaves the function
ReadResponse ==
    /\ fm_pc = "read"
    /\ Len(results) < Len(responses)
    /\ LET resp == responses[Len(results) + 1] IN
       IF resp.kind = "exception"
       THEN /\ results' = Append(results, ErrorRecord)
            /\ UNCHANGED fm_pc
       ELSE IF resp.body_ok
       THEN /\ results' = Append(results, [cod |-> "200", city |-> resp.city])
            /\ UNCHANGED fm_pc
       ELSE /\ fm_pc' = "raised"
            /\ UNCHANGED results
    /\ UNCHANGED <<fm_cities, responses>>
    /\ UNCHANGED <<window, dvars, bvars, fvars>>

\* return results
ReturnResults ==
    /\ fm_pc = "read"
    /\ Len(results) = Len(responses)
    /\ fm_pc' = "returned"
    /\ UNCHANGED <<fm_cities, responses, results>>
    /\ UNCHANGED <<window, dvars, bvars, fvars>>

MNext == GatherRequests \/ RequestCompletes \/ GatherReturns \/ ReadResponse \/ ReturnResults

SpecFetchMany == MInit /\ [][MNext]_vars

\* a call of benchmark_historical(df, cities, window, workers), or a press of the
\* run button of the Experiments page (cities from the table, workers from the slider)
BInit ==
    /\ harness \in {"benchmark_historical", "tab_parallel"}
    /\ \E inp \in Inputs : df = inp.df /\ window = inp.window
    /\ IF harness = "benchmark_historical"
       THEN cities \in CityLists /\ workers \in 0..MaxWorkers
       ELSE cities = PageCities(df) /\ workers \in 1..MaxWorkers
    /\ faulty \in {{}} \cup {{<<phase, c>>} : phase \in {"seq", "par"}, c \in Cities}
    /\ tasks = <<>>
    /\ seq_results = <<>>
    /\ fut = NoFutures
    /\ par_results = <<>>
    /\ results_df = <<>>
    /\ error = "none"
    /\ pc = "start"
    /\ DIdle
    /\ FIdle
    /\ MIdle

\* city_groups = {c: ... for c in cities}; on the page the tasks are the cities
BuildGroups ==
    /\ pc = "start"
    /\ tasks' = IF harness = "benchmark_historical" THEN DictKeys(cities) ELSE cities
    /\ pc' = "seq"
    /\ UNCHANGED <<harness, df, cities, workers, faulty, seq_results, fut, par_results,
                   results_df, error>>
    /\ UNCHANGED <<window, dvars, fvars, mvars>>

\* one iteration of the sequential loop; an exception of the task leaves the harness
SeqAnalyze ==
    /\ pc = "seq"
    /\ Len(seq_results) < Len(tasks)
    /\ LET c == tasks[Len(seq_results) + 1] IN
       IF <<"seq", c>> \in faulty
       THEN /\ pc' = "raised"
            /\ error' = "task"
            /\ UNCHANGED seq_results
       ELSE /\ seq_results' = Append(seq_results, SequentialTask(harness, df, c, window))
            /\ UNCHANGED <<pc, error>>
    /\ UNCHANGED <<harness, df, cities, workers, faulty, tasks, fut, par_results, results_df>>
    /\ UNCHANGED <<window, dvars, fvars, mvars>>

\* ThreadPoolExecutor(max_workers=workers), which rejects workers <= 0, and the
\* submission of one future per task
CreatePool ==
    /\ pc = "seq"
    /\ Len(seq_results) = Len(tasks)
    /\ IF workers <= 0
       THEN /\ pc' = "raised"
            /\ error' = "pool"
            /\ UNCHANGED fut
       ELSE /\ fut' = [i \in 1..Len(tasks) |-> "queued"]
            /\ pc' = "par"
            /\ UNCHANGED error
    /\ UNCHANGED <<harness, df, cities, workers, faulty, tasks, seq_results, par_results,
                   results_df>>
    /\ UNCHANGED <<window, dvars, fvars, mvars>>

Running == {i \in 1..Len(fut) : fut[i] = "running"}
Queued == {i \in 1..Len(fut) : fut[i] = "queued"}
Finished == {i \in 1..Len(fut) : fut[i] = "finished"}

\* an idle worker thread takes the oldest queued task
WorkerStart ==
    /\ pc \in {"par", "unwind"}
    /\ Queued # {}
    /\ Cardinality(Running) < workers
    /\ LET i == CHOOSE j \in Queued : \A k \in Queued : j <= k IN
       fut' = [fut EXCEPT ![i] = "running"]
    /\ UNCHANGED <<harness, df, cities, workers, faulty, tasks, seq_results, par_results,
                   results_df, error, pc>>
    /\ UNCHANGED <<window, dvars, fvars, mvars>>

\* a running task ends, with a result or with an exception
WorkerFinish ==
    /\ pc \in {"par", "unwind"}
    /\ \E i \in Running : fut' = [fut EXCEPT ![i] = "finished"]
    /\ UNCHANGED <<harness, df, cities, workers, faulty, tasks, seq_results, par_results,
                   results_df, error, pc>>
    /\ UNCHANGED <<window, dvars, fvars, mvars>>

\* the futures the main thread can take next: any finished one (as_completed),
\* or the next in submission order (the iterator of ex.map)
Collectable ==
    IF harness = "benchmark_historical"
    THEN {i \in Finished : TRUE}
    ELSE {i \in Finished : i = Cardinality({j \in 1..Len(fut) : fut[j] = "collected"}) + 1}

\* par_results.append(f.result()); the result of a failed task re-raises in the
\* main thread, and ex.map then cancels the futures that have not started
Collect ==
    /\ pc = "par"
    /\ \E i \in Collectable :
        IF <<"par", tasks[i]>> \in faulty
        THEN /\ pc' = "unwind"
             /\ error' = "task"
             /\ fut' = [j \in 1..Len(fut) |->
                          IF j = i THEN "collected"
                          ELSE IF harness = "tab_parallel" /\ fut[j] = "queued" THEN "cancelled"
                          ELSE fut[j]]
             /\ UNCHANGED par_results
        ELSE /\ par_results' = Append(par_results, ParallelTask(harness, df, tasks[i], window))
             /\ fut' = [fut EXCEPT ![i] = "collected"]
             /\ UNCHANGED <<pc, error>>
    /\ UNCHANGED <<harness, df, cities, workers, faulty, tasks, seq_results, results_df>>
    /\ UNCHANGED <<window, dvars, fvars, mvars>>

\* every future collected: the pool is shut down and the sorted table is reported;
\* a frame built from no records has no "city" column, and sorting it by "city"
\* raises KeyError
Report ==
    /\ pc = "par"
    /\ \A i \in 1..Len(fut) : fut[i] = "collected"
    /\ IF par_results = <<>>
       THEN /\ pc' = "raised"
            /\ error' = "sort"
            /\ UNCHANGED results_df
       ELSE /\ results_df' = SortByCity(par_results)
            /\ pc' = "done"
            /\ UNCHANGED error
    /\ UNCHANGED <<harness, df, cities, workers, faulty, tasks, seq_results, fut, par_results>>
    /\ UNCHANGED <<window, dvars, fvars, mvars>>

\* leaving the with block on an exception: shutdown(wait=True), then the exception
\* leaves the harness
Unwind ==
    /\ pc = "unwind"
    /\ Running = {}
    /\ Queued = {}
    /\ pc' = "raised"
    /\ UNCHANGED <<harness, df, cities, workers, faulty, tasks, seq_results, fut, par_results,
                   results_df, error>>
    /\ UNCHANGED <<window, dvars, fvars, mvars>>

BNext ==
    \/ BuildGroups
    \/ SeqAnalyze
    \/ CreatePool
    \/ WorkerStart
    \/ WorkerFinish
    \/ Collect
    \/ Report
    \/ Unwind

SpecBatch == BInit /\ [][BNext]_vars

\* --------------------------------------------- detector pipeline (one city)
\* a CitySeries: one reading per day, ascending by timestamp; the season follows
\* the calendar, so the days up to the turn are winter and the later ones summer
CitySeries ==
    UNION {{[i \in 1..n |-> [city |-> 1, timestamp |-> i, temperature |-> f[i],
                             season |-> IF i <= turn THEN "winter" ELSE "summer"]]
            : f \in [1..n -> Temps], turn \in 0..n}
           : n \in 0..MaxLen}

DInit ==
    /\ series \in CitySeries
    /\ cdf = series
    /\ window \in 1..(MaxLen + 1)
    /\ season_stats = <<>>
    /\ counts = None
    /\ block = None
    /\ dpc = "sliced"
    /\ BIdle
    /\ FIdle
    /\ MIdle

\* analyze_city: cdf = add_rolling(cdf, window=window)
AddRolling ==
    /\ dpc = "sliced"
    /\ cdf' = add_rolling(cdf, window)
    /\ dpc' = "rolled"
    /\ UNCHANGED <<series, window, season_stats, counts, block, bvars, fvars, mvars>>

\* analyze_city: season_stats = season_stats_for_city(cdf)
SeasonStatsForCity ==
    /\ dpc = "rolled"
    /\ season_stats' = season_stats_for_city(cdf)
    /\ dpc' = "stats"
    /\ UNCHANGED <<series, cdf, window, counts, block, bvars, fvars, mvars>>

\* analyze_city: cdf = add_season_bounds(cdf, season_stats) and the returned counts
AddSeasonBounds ==
    /\ dpc = "stats"
    /\ cdf' = add_season_bounds(cdf, season_stats)
    /\ counts' = [city |-> 1,
                  rolling_anomalies |-> Count(cdf', "roll_anomaly"),
                  season_anomalies |-> Count(cdf', "season_anomaly")]
    /\ dpc' = "bounded"
    /\ UNCHANGED <<series, window, season_stats, block, bvars, fvars, mvars>>

\* the same series through analyze_city_block
AnalyzeCityBlock ==
    /\ dpc = "sliced"
    /\ block' = analyze_city_block(1, cdf, window)
    /\ dpc' = "block"
    /\ UNCHANGED <<series, cdf, window, season_stats, counts, bvars, fvars, mvars>>

DNext == AddRolling \/ SeasonStatsForCity \/ AddSeasonBounds \/ AnalyzeCityBlock

SpecDetect == DInit /\ [][DNext]_vars

\* ------------------------------------------------------ detector claims
WarmUpBound == IF Len(series) - window + 1 > 0 THEN Len(series) - window + 1 ELSE 0

SameReadings(d) ==
    /\ Len(d) = Len(series)
    /\ \A i \in 1..Len(d) :
        /\ d[i].timestamp = series[i].timestamp
        /\ d[i].temperature = series[i].temperature
        /\ d[i].season = series[i].season

\* C7: add_rolling returns one row per reading, aligned by position; every row
\* before index window-1 (all rows when window > n) has undefined roll_mean and
\* roll_std and roll_anomaly = FALSE; the rolling anomaly count, of add_rolling
\* and of analyze_city_block, is at most max(0, n - window + 1).
C7_RollingWarmUp ==
    /\ dpc \in {"rolled", "stats"} =>
        /\ SameReadings(cdf)
        /\ \A i \in 1..Len(cdf) :
             i < window => /\ ~cdf[i].roll_mean.def
                           /\ ~cdf[i].roll_std.def
                           /\ ~cdf[i].roll_anomaly
        /\ Count(cdf, "roll_anomaly") <= WarmUpBound
    /\ dpc = "bounded" => counts.rolling_anomalies <= WarmUpBound
    /\ dpc = "block" => block.rolling_anomalies <= WarmUpBound

\* a series at least as long as a window of two or more, with an anomaly flagged
C7_Witness ==
    /\ dpc = "rolled"
    /\ window >= 2
    /\ Len(cdf) >= window
    /\ \E i \in 1..Len(cdf) : cdf[i].roll_anomaly

C7_WitnessLongWindow ==
    /\ dpc = "rolled"
    /\ Len(cdf) >= 1
    /\ window > Len(cdf)

SeasonTemps(season) == TempsOfSeason(series, season)

SumOfSquares(xs) == SumSeq([i \in 1..Len(xs) |-> xs[i] * xs[i]])

\* |t - mean| > 2*std for the sample std of xs, from the sums of xs alone
OutsideTwoSigma(t, xs) ==
    LET n == Len(xs)
        S == SumSeq(xs)
        Q == SumOfSquares(xs)
    IN (n * t - S) * (n * t - S) * (n - 1) > 4 * n * (n * Q - S * S)

\* C9: add_season_bounds(series, season_stats_for_city(series)) returns one row
\* per input reading; a reading alone in its season has undefined season_std,
\* season_upper and season_lower and season_anomaly = FALSE; in a season of two
\* or more readings season_anomaly holds iff the temperature is strictly above
\* season_mean + 2*season_std or strictly below season_mean - 2*season_std.
C9_SeasonalDegeneracy ==
    dpc = "bounded" =>
        /\ SameReadings(cdf)
        /\ \A i \in 1..Len(cdf) :
            LET xs == SeasonTemps(cdf[i].season) IN
            /\ Len(xs) = 1 => /\ ~cdf[i].season_std.def
                              /\ ~cdf[i].season_upper.def
                              /\ ~cdf[i].season_lower.def
                              /\ ~cdf[i].season_anomaly
            /\ Len(xs) >= 2 => /\ cdf[i].season_std.def
                               /\ cdf[i].season_anomaly = OutsideTwoSigma(cdf[i].temperature, xs)

\* one season with a single reading, the other with a flagged anomaly
C9_Witness ==
    /\ dpc = "bounded"
    /\ \E i \in 1..Len(cdf) : Len(SeasonTemps(cdf[i].season)) = 1
    /\ \E i \in 1..Len(cdf) : cdf[i].season_anomaly

\* --------------------------------------------------- batch harness claims
Terminal == pc \in {"done", "raised"}

Entries(rows, c) == {i \in 1..Len(rows) : rows[i].city = c}

C3_PerCityIsolation ==
    (Terminal /\ workers >= 1) =>
        \A c \in Range(cities) \ FaultyCities : Entries(results_df, c) # {}

\* C4: the parallel run's records, sorted by city, equal the sequential run's
\* records sorted by city, field by field, for every completion order.
C4_StrategyEquivalence ==
    pc = "done" => results_df = SortByCity(seq_results)

\* two or more cities, collected in another order than the sequential one, one of
\* them with a rolling anomaly
C4_Witness ==
    /\ pc = "done"
    /\ Len(results_df) >= 2
    /\ par_results # seq_results
    /\ \E i \in 1..Len(results_df) : results_df[i].rolling_anomalies > 0

\* C5 (as claimed): benchmark_historical with workers <= 0 runs the parallel
\* strategy with one worker and returns a result: no call ends in an exception
\* of the pool's construction.
C5_WorkersClamped ==
    (/\ harness = "benchmark_historical"
     /\ Terminal
     /\ workers <= 0
     /\ cities # <<>>
     /\ FaultyCities \cap Range(cities) = {})
        => pc = "done"

Degenerate(r) ==
    /\ r.n_days = 0
    /\ r.rolling_anomalies = 0
    /\ r.season_anomalies = 0
    /\ ~r.period_start.def
    /\ ~r.period_end.def

RecordsAsExpected(rows) ==
    \A i \in 1..Len(rows) :
        IF FilterCity(df, rows[i].city) = <<>>
        THEN Degenerate(rows[i])
        ELSE /\ rows[i].n_days = Len(FilterCity(df, rows[i].city))
             /\ rows[i].period_start.def
             /\ rows[i].period_end.def

\* C6: a city of the list with no rows in the table gets the record n_days = 0,
\* rolling_anomalies = 0, season_anomalies = 0 with undefined period bounds, in
\* the sequential and in the parallel run, and the harness does not raise for
\* it; the other cities keep their own day counts and period bounds.
C6_ZeroRowCity ==
    harness = "benchmark_historical" =>
        /\ RecordsAsExpected(seq_results)
        /\ RecordsAsExpected(par_results)
        /\ RecordsAsExpected(results_df)
        /\ (Terminal /\ cities # <<>> /\ FaultyCities \cap Range(cities) = {} /\ workers >= 1)
             => pc = "done"

\* a finished call whose list holds a city without rows and a city with rows
C6_Witness ==
    /\ pc = "done"
    /\ harness = "benchmark_historical"
    /\ \E i \in 1..Len(results_df) : Degenerate(results_df[i])
    /\ \E i \in 1..Len(results_df) : results_df[i].n_days > 0

\* ----------------------------------------------------- fan-out claims
\* a call that fails: transport exception, non-"200" cod, or malformed payload
Fails(r) == r.exc \/ r.cod # 200 \/ ~r.has_main

RowsFor(rows, resp) ==
    /\ Len(rows) = Len(sel)
    /\ \A i \in 1..Len(rows) :
        /\ rows[i].city = sel[i]
        /\ Fails(resp[i]) => ~rows[i].temp.def
        /\ ~Fails(resp[i]) => rows[i].temp = [def |-> TRUE, value |-> resp[i].temp]

\* C2: for N selected cities and any subset of failing calls, each strategy
\* produces exactly N rows, one per city in input order; a failing city has
\* temp = None and every other city has its own temperature; no failure stops
\* the remaining calls.
C2_FanOutComplete ==
    /\ fpc \in {"gather", "done"} => RowsFor(sync_rows, sync_resp)
    /\ fpc = "done" => RowsFor(async_df, async_results)

\* three cities; in each strategy the first call fails and the last succeeds
C2_Witness ==
    /\ fpc = "done"
    /\ Len(sel) = 3
    /\ Fails(sync_resp[1]) /\ ~Fails(sync_resp[3])
    /\ Fails(async_results[1]) /\ ~Fails(async_results[3])
    /\ async_df[3].temp.def

IsApiError(r) == ~r.exc /\ r.cod # 200

\* C8 (as claimed): in a fan-out run the row of a city with an API error (cod
\* other than "200") differs from the row of a city with a transport error in
\* more than the city name.
C8_ErrorKindsDistinct ==
    fpc = "done" =>
        \A i \in 1..Len(sel) : \A j \in 1..Len(sel) :
            /\ (IsApiError(async_results[i]) /\ async_results[j].exc)
                 => async_df[i].temp # async_df[j].temp
            /\ (IsApiError(sync_resp[i]) /\ sync_resp[j].exc)
                 => sync_rows[i].temp # sync_rows[j].temp

\* C10 (as claimed): fetch_many_cities_async returns one result per city,
\* aligned with the input list, a failed request or body read being that city's
\* own error record.
C10_FetchManyIsolated ==
    fm_pc \in {"returned", "raised"} =>
        /\ fm_pc = "returned"
        /\ Len(results) = Len(fm_cities)
        /\ \A i \in 1..Len(results) :
            IF responses[i].kind = "response" /\ responses[i].body_ok
            THEN results[i].city = fm_cities[i]
            ELSE results[i] = ErrorRecord

====
